---------------------------- MODULE Spec2Model ----------------------------
(***************************************************************************)
(* MaxvalueEntropySearch (GPflowOpt/acquisition/mes.py) as a state machine.*)
(*                                                                         *)
(* Numbers.  The program computes in IEEE doubles.  The model computes in  *)
(* fixed point: a position x (a function value of the surrogate) is an     *)
(* integer number of quanta, a log-probability is an integer number of     *)
(* 1e-7 nats, a probability an integer number of 1e-4.  Every operation    *)
(* rounds its result to the quantum, as a double operation rounds to the   *)
(* nearest representable number.  NaN is a value of its own, with the      *)
(* IEEE rules: it propagates through arithmetic and every comparison with  *)
(* it is false.                                                            *)
(***************************************************************************)
EXTENDS Integers, Sequences, FiniteSets

VARIABLES
    gridsize,      \* self.gridsize
    num_samples,   \* self.num_samples
    samples,       \* self.samples: the cached max-value samples
    Y,             \* m.Y.value: the surrogate's training targets
    postX,         \* the surrogate's posterior at its training inputs X
    autoflow,      \* the surrogate holds a cached predict_f graph
    pc,            \* where the running call stands; "idle" between calls
    fgrid,         \* fmean, fvar of setup (the closure of probf), run-length encoded
    left,          \* setup's local left
    right,         \* setup's local right
    q,             \* the quantiles map() has produced so far
    stack,         \* binary_search's call stack: one <<left, right>> per frame
    val,           \* binary_search's target val
    ret,           \* what the last binary_search returned, <<>> before
    err,           \* the exception the last setup or binary_search raised, or "none"
    scored         \* the scores returned since setup was last called:
                   \* one <<candidate, value>> per build_acquisition call

vars == <<gridsize, num_samples, samples, Y, postX, autoflow, pc, fgrid,
          left, right, q, stack, val, ret, err, scored>>

----------------------------------------------------------------------------
(* Bounds of the model.                                                    *)

MaxSamples == 2

\* score calls followed between two setup calls
MaxScores == 2

----------------------------------------------------------------------------
(* IEEE special values.                                                    *)

NaN == -999999999

NegInf == -999999998

IsNaN(v) == v = NaN

Finite(v) == v # NaN /\ v # NegInf

\* a < b on doubles: false when either side is NaN
Less(a, b) == ~IsNaN(a) /\ ~IsNaN(b) /\ a < b

Abs(v) == IF v < 0 THEN -v ELSE v

----------------------------------------------------------------------------
(* Library functions, tabulated.                                           *)

\* log(0): where np.exp underflows to 0
LogFloor == -2000000000

\* scipy.stats.norm.logcdf at z = -6 .. 6, in 1e-7 nats
LogCdfTab == <<-207367689, -150649984, -103601015, -66077262, -37831843,
               -18410216, -6931472, -1727538, -230129, -13508, -317, -3, 0>>

\* exp(-k/10) for k = 0 .. 100, in 1e-4
ExpTab == <<10000, 9048, 8187, 7408, 6703, 6065, 5488, 4966, 4493, 4066,
            3679, 3329, 3012, 2725, 2466, 2231, 2019, 1827, 1653, 1496,
            1353, 1225, 1108, 1003, 907, 821, 743, 672, 608, 550,
            498, 450, 408, 369, 334, 302, 273, 247, 224, 202,
            183, 166, 150, 136, 123, 111, 101, 91, 82, 74,
            67, 61, 55, 50, 45, 41, 37, 33, 30, 27,
            25, 22, 20, 18, 17, 15, 14, 12, 11, 10,
            9, 8, 7, 7, 6, 6, 5, 5, 4, 4,
            3, 3, 3, 2, 2, 2, 2, 2, 2, 1,
            1, 1, 1, 1, 1, 1, 1, 1, 1, 1, 0>>

\* the standard normal density at z = -6 .. 6, in 1e-4
PdfTab == <<0, 0, 1, 44, 540, 2420, 3989, 2420, 540, 44, 1, 0, 0>>

RECURSIVE SqrtBisect(_, _, _)
SqrtBisect(lo, hi, v) ==
    IF hi - lo <= 1 THEN lo
    ELSE LET m == (lo + hi) \div 2
         IN  IF m * m <= v THEN SqrtBisect(m, hi, v) ELSE SqrtBisect(lo, m, v)

\* np.sqrt: NaN of a negative number
Sqrt(v) == IF v < 0 THEN NaN ELSE SqrtBisect(0, v + 1, v)

\* a * b / c for c > 0, rounded down, without overflow of a * b
MulDiv(a, b, c) == (a \div c) * b + ((a % c) * b) \div c

\* linear interpolation between two table entries:
\* lo + (hi - lo) * num / den for 0 <= num < den
Interp(lo, hi, num, den) == lo + MulDiv(hi - lo, num, den)

\* norm.logcdf(num / den), den the standard deviation.  A zero deviation
\* makes the quotient +inf, -inf or NaN (0/0).
LogCdf(num, den) ==
    IF IsNaN(den) THEN NaN
    ELSE IF den = 0
         THEN (IF num = 0 THEN NaN ELSE IF num > 0 THEN 0 ELSE LogFloor)
    ELSE LET zf == num \div den
         IN  IF zf >= 6 THEN 0
             ELSE IF zf < -6 THEN LogCdfTab[1]
             ELSE Interp(LogCdfTab[zf + 7], LogCdfTab[zf + 8], num - zf * den, den)

\* the sum of count equal terms t <= 0, saturating at LogFloor
Times(count, t) ==
    IF IsNaN(t) THEN NaN
    ELSE IF t = 0 \/ count = 0 THEN 0
    ELSE IF count > (-LogFloor) \div (-t) THEN LogFloor
    ELSE count * t

Plus(a, b) ==
    IF IsNaN(a) \/ IsNaN(b) THEN NaN
    ELSE IF a < LogFloor - b THEN LogFloor
    ELSE a + b

\* np.exp of s <= 0 (1e-7 nats), in 1e-4
Exp(s) ==
    IF IsNaN(s) THEN NaN
    ELSE LET k == (-s) \div 1000000
             f == (-s) % 1000000
         IN  IF k >= 100 THEN 0
             ELSE ExpTab[k + 1] - ((ExpTab[k + 1] - ExpTab[k + 2]) * (f \div 100)) \div 10000

\* the density at num / den, in 1e-4
Pdf(num, den) ==
    LET zf == num \div den
    IN  IF zf >= 6 \/ zf < -6 THEN 0
        ELSE Interp(PdfTab[zf + 7], PdfTab[zf + 8], num - zf * den, den)

----------------------------------------------------------------------------
(* Inputs: what the surrogate, the random source and the caller supply.    *)

\* a block of count grid points that share one posterior mean and variance
Block(mean, var, count) == [mean |-> mean, var |-> var, count |-> count]

\* constructor arguments
GridSizes == {1, 10000, 2000000}

\* training targets of the surrogate
Targets == {<< >>, <<100>>, <<-100>>, <<30, 600>>}

\* posterior (mean, variance) the surrogate may predict at a grid point
GridPosteriors == {<<0, 1600>>, <<400, 1600>>, <<0, 1>>, <<0, 0>>, <<0, -1>>}

\* posterior (mean, variance) of the surrogate at its training inputs
TrainPosteriors == {<<0, 1600>>, <<400, 1600>>}

\* candidate points a caller scores
Candidates == {1, 2}

\* np.random.rand draws, in percent
UDraws == {10, 90}

\* the targets of the three quantile searches, in 1e-4
Vals == <<2500, 5000, 7500>>

\* binary_search's default threshold, in 1e-4
Threshold == 100

\* the number of points of np.linspace in binary_search
NumPoints == 100

----------------------------------------------------------------------------
(* probf and binary_search.                                                *)

RECURSIVE SumLogCdf(_, _, _)
\* np.sum(norm.logcdf(-(x - fmean) / np.sqrt(fvar)), axis=0) over blocks k..
SumLogCdf(post, x, k) ==
    IF k > Len(post) THEN 0
    ELSE Plus(Times(post[k].count, LogCdf(post[k].mean - x, Sqrt(post[k].var))),
              SumLogCdf(post, x, k + 1))

\* probf = lambda x: np.exp(np.sum(norm.logcdf(...)))
probf(x) == IF IsNaN(x) THEN NaN ELSE Exp(SumLogCdf(fgrid, x, 1))

\* np.linspace(l, r, 100)[k], k = 0 .. 99: l + k * step, the last point r
Linspace(l, r, k) ==
    IF k = NumPoints - 1 THEN r
    ELSE IF IsNaN(l) \/ IsNaN(r) THEN NaN
    ELSE l + (2 * k * (r - l) + (NumPoints - 1)) \div (2 * (NumPoints - 1))

\* x = np.linspace(left, right, 100)[::-1], x[j] for j = 0 .. 99
XAt(l, r, j) == Linspace(l, r, NumPoints - 1 - j)

RECURSIVE Bisect(_, _, _, _)
\* np.searchsorted(func(x), val), side left: numpy's binary search
Bisect(l, r, lo, hi) ==
    IF lo >= hi THEN lo
    ELSE LET m == lo + (hi - lo) \div 2
         IN  IF Less(probf(XAt(l, r, m)), val)
             THEN Bisect(l, r, m + 1, hi)
             ELSE Bisect(l, r, lo, m)

SearchSorted(l, r) == Bisect(l, r, 0, NumPoints)

\* np.sum(x[i-1:i+1]) / 2: the slice is empty for i = 0 (x[-1:1]) and
\* holds x[99] alone for i = 100
Mid(l, r, i) ==
    IF i = 0 THEN 0
    ELSE IF i = NumPoints
         THEN (IF IsNaN(XAt(l, r, i - 1)) THEN NaN ELSE XAt(l, r, i - 1) \div 2)
    ELSE IF IsNaN(XAt(l, r, i - 1)) \/ IsNaN(XAt(l, r, i)) THEN NaN
    ELSE (XAt(l, r, i - 1) + XAt(l, r, i)) \div 2

\* ev - val > threshold: the deviation taken with its sign
OutOfToleranceSigned(ev, v) == ~IsNaN(ev) /\ ev - v > Threshold

\* np.abs(ev - val) > threshold
OutOfTolerance(ev, v) == ~IsNaN(ev) /\ Abs(ev - v) > Threshold

\* the frame binary_search is running
Top == stack[Len(stack)]

TopI == SearchSorted(Top[1], Top[2])

TopMid == Mid(Top[1], Top[2], TopI)

TopEv == probf(TopMid)

\* x[i-1], a negative index counting from the end
XBefore(l, r, i) == XAt(l, r, (i - 1) % NumPoints)

\* the frame is already on the stack below the top: the same call again
Repeated == \E k \in 1..(Len(stack) - 1) : stack[k] = Top

----------------------------------------------------------------------------
(* Construction.                                                           *)

Zeros(n) == [j \in 1..n |-> 0]

NoLocals ==
    /\ fgrid = << >> /\ left = 0 /\ right = 0 /\ q = << >>
    /\ stack = << >> /\ val = 0 /\ ret = << >>

\* a call returns or raises: its locals are gone
DropLocals ==
    /\ fgrid' = << >> /\ left' = 0 /\ right' = 0 /\ q' = << >>
    /\ stack' = << >> /\ val' = 0 /\ ret' = << >>

\* __init__(model, domain, gridsize, num_samples)
Init ==
    /\ gridsize \in GridSizes
    /\ num_samples \in 1..MaxSamples
    /\ samples = Zeros(num_samples)
    /\ Y \in Targets
    /\ postX \in TrainPosteriors
    /\ autoflow = FALSE
    /\ pc = "idle"
    /\ NoLocals
    /\ err = "none"
    /\ scored = << >>

----------------------------------------------------------------------------
(* setup.                                                                  *)

RECURSIVE MaxOf(_, _)
\* np.max of a non-empty sequence, from index k
MaxOf(seq, k) ==
    IF k = Len(seq) THEN seq[k]
    ELSE LET rest == MaxOf(seq, k + 1)
         IN  IF seq[k] > rest THEN seq[k] ELSE rest

RECURSIVE MinLower(_, _)
\* np.min(fmean - 5 * np.sqrt(fvar)) over blocks k.. ; NaN when any term is
MinLower(post, k) ==
    LET sd   == Sqrt(post[k].var)
        here == IF IsNaN(sd) THEN NaN ELSE post[k].mean - 5 * sd
    IN  IF k = Len(post) THEN here
        ELSE LET rest == MinLower(post, k + 1)
             IN  IF IsNaN(here) \/ IsNaN(rest) THEN NaN
                 ELSE IF here < rest THEN here ELSE rest

\* the level probf(left) has to reach, in 1e-4
WidenLevel == 7500

\* left = -2 * left + right
Widened(l, r) == -2 * l + r

\* m.predict_f over the random grid and the training inputs.  The gridsize
\* random points share the posterior gp, the training points postX.
SetupPredict ==
    /\ pc = "idle"
    /\ \E gp \in GridPosteriors :
          fgrid' = <<Block(gp[1], gp[2], gridsize),
                     Block(postX[1], postX[2], Len(Y))>>
    /\ autoflow' = TRUE
    /\ pc' = "max"
    /\ err' = "none" /\ scored' = << >>
    /\ UNCHANGED <<gridsize, num_samples, samples, Y, postX,
                   left, right, q, stack, val, ret>>

\* super().setup() or m.predict_f raises
SetupPredictRaises ==
    /\ pc = "idle"
    /\ err' = "PredictError" /\ scored' = << >>
    /\ UNCHANGED <<gridsize, num_samples, samples, Y, postX, autoflow, pc,
                   fgrid, left, right, q, stack, val, ret>>

\* np.max of an empty array raises ValueError
SetupMaxRaises ==
    /\ pc = "max"
    /\ Y = << >>
    /\ pc' = "idle" /\ err' = "ValueError"
    /\ DropLocals
    /\ UNCHANGED <<gridsize, num_samples, samples, Y, postX, autoflow,
                   scored>>

\* right = np.max(Y); left = np.min(fmean - 5 * np.sqrt(fvar))
SetupBracket ==
    /\ pc = "max"
    /\ Y # << >>
    /\ right' = MaxOf(Y, 1)
    /\ left' = MinLower(fgrid, 1)
    /\ pc' = "widen"
    /\ UNCHANGED <<gridsize, num_samples, samples, Y, postX, autoflow,
                   fgrid, q, stack, val, ret, err, scored>>

\* while probf(left) < 0.75: left = -2 * left + right
Widen ==
    /\ pc = "widen"
    /\ Less(probf(left), WidenLevel)
    /\ left' = Widened(left, right)
    /\ UNCHANGED <<gridsize, num_samples, samples, Y, postX, autoflow, pc,
                   fgrid, right, q, stack, val, ret, err, scored>>

\* the loop ends; map() calls binary_search for the first target
WidenExit ==
    /\ pc = "widen"
    /\ ~Less(probf(left), WidenLevel)
    /\ pc' = "search"
    /\ stack' = << <<left, right>> >>
    /\ val' = Vals[1]
    /\ UNCHANGED <<gridsize, num_samples, samples, Y, postX, autoflow,
                   fgrid, left, right, q, ret, err, scored>>

----------------------------------------------------------------------------
(* binary_search, one action per way a call ends.                          *)

\* a binary_search call is running: inside setup or called directly
Searching == pc \in {"search", "call"} /\ ret = << >> /\ err = "none"

\* an exception leaves setup with its locals dropped; a direct call just ends
Raise(e) ==
    /\ err' = e
    /\ IF pc = "search"
       THEN pc' = "idle" /\ DropLocals
       ELSE UNCHANGED <<pc, fgrid, left, right, q, stack, val, ret>>
    /\ UNCHANGED <<gridsize, num_samples, samples, Y, postX, autoflow,
                   scored>>

\* return mid, through every frame
BSReturn ==
    /\ Searching /\ ~Repeated
    /\ ~OutOfTolerance(TopEv, val)
    /\ ret' = <<TopMid>>
    /\ UNCHANGED <<gridsize, num_samples, samples, Y, postX, autoflow, pc,
                   fgrid, left, right, q, stack, val, err, scored>>

\* return self.binary_search(mid, x[i-1], func, val, threshold)
BSRecurseUpper ==
    /\ Searching /\ ~Repeated
    /\ OutOfTolerance(TopEv, val)
    /\ TopEv > val
    /\ stack' = Append(stack, <<TopMid, XBefore(Top[1], Top[2], TopI)>>)
    /\ UNCHANGED <<gridsize, num_samples, samples, Y, postX, autoflow, pc,
                   fgrid, left, right, q, val, ret, err, scored>>

\* return self.binary_search(x[i], mid, func, val, threshold);
\* x[i] with i = 100 is out of range and raises IndexError
BSRecurseLower ==
    /\ Searching /\ ~Repeated
    /\ OutOfTolerance(TopEv, val)
    /\ ~(TopEv > val)
    /\ IF TopI = NumPoints
       THEN Raise("IndexError")
       ELSE /\ stack' = Append(stack, <<XAt(Top[1], Top[2], TopI), TopMid>>)
            /\ UNCHANGED <<gridsize, num_samples, samples, Y, postX, autoflow,
                           pc, fgrid, left, right, q, val, ret, err, scored>>

\* a call with the arguments of a frame below it repeats that frame's
\* calls for ever: the interpreter ends it at its recursion limit
BSRecursionError ==
    /\ Searching /\ Repeated
    /\ Raise("RecursionError")

\* map() takes the quantile and calls binary_search for the next target
MapNext ==
    /\ pc = "search"
    /\ ret # << >>
    /\ q' = Append(q, ret[1])
    /\ ret' = << >>
    /\ IF Len(q) + 1 < Len(Vals)
       THEN /\ stack' = << <<left, right>> >>
            /\ val' = Vals[Len(q) + 2]
            /\ pc' = "search"
       ELSE /\ stack' = << >>
            /\ val' = 0
            /\ pc' = "fit"
    /\ UNCHANGED <<gridsize, num_samples, samples, Y, postX, autoflow,
                   fgrid, left, right, err, scored>>

\* |ln(ln(4/3)) - ln(ln(4))| = 1.5725, in 1e-3
GumbelSpan == 1573

\* |ln(ln(2))| = 0.3665, in 1e-3
LnLn2 == 367

\* beta = (q1 - q2) / (np.log(np.log(4 / 3)) - np.log(np.log(4))), in 1e-3 quanta
Beta(q1, q2) ==
    IF IsNaN(q1) \/ IsNaN(q2) THEN NaN
    ELSE -MulDiv((q1 - q2) * 1000, 1000, GumbelSpan)

\* alpha = med + beta * np.log(np.log(2)), in 1e-3 quanta
Alpha(med, beta) ==
    IF IsNaN(med) \/ IsNaN(beta) THEN NaN
    ELSE med * 1000 - MulDiv(beta, LnLn2, 1000)

\* -np.log(-np.log(u)) for a draw u (percent), in 1e-2
NegLogNegLog(u) == CASE u = 10 -> -83 [] u = 50 -> 37 [] u = 90 -> 225

\* -np.log(-np.log(u)) * beta + alpha, rounded to the quantum
Gumbel(u, beta, alpha) ==
    IF IsNaN(beta) \/ IsNaN(alpha) THEN NaN
    ELSE (MulDiv(beta, NegLogNegLog(u), 100) + alpha + 500) \div 1000

\* mins with one draw for each quantile, np.random.rand(3)
MinsPerQuantile(u) ==
    LET beta  == Beta(q[1], q[3])
        alpha == Alpha(q[2], beta)
    IN  [j \in 1..Len(q) |->
            Gumbel(u[((j - 1) % num_samples) + 1], beta, alpha)]

\* mins: one draw for each of the self.num_samples entries of np.random.rand
Mins(u) ==
    LET beta  == Beta(q[1], q[3])
        alpha == Alpha(q[2], beta)
    IN  [j \in 1..num_samples |-> Gumbel(u[j], beta, alpha)]

\* beta, alpha, mins; m._kill_autoflow(); self.samples.set_data(mins)
SetupFit ==
    /\ pc = "fit"
    /\ \E u \in [1..num_samples -> UDraws] : samples' = Mins(u)
    /\ autoflow' = FALSE
    /\ pc' = "idle"
    /\ DropLocals
    /\ UNCHANGED <<gridsize, num_samples, Y, postX, err, scored>>

\* self.samples.set_data(mins) ahead of an m._kill_autoflow() that raises
SetupKillRaisesAfterSetData ==
    /\ pc = "fit"
    /\ \E u \in [1..num_samples -> UDraws] : samples' = Mins(u)
    /\ pc' = "idle" /\ err' = "KillError"
    /\ DropLocals
    /\ UNCHANGED <<gridsize, num_samples, Y, postX, autoflow, scored>>

\* m._kill_autoflow() raises
SetupKillRaises ==
    /\ pc = "fit"
    /\ pc' = "idle" /\ err' = "KillError"
    /\ DropLocals
    /\ UNCHANGED <<gridsize, num_samples, samples, Y, postX, autoflow,
                   scored>>

----------------------------------------------------------------------------
(* build_acquisition.                                                      *)

\* self.models[0].wrapped.build_predict(Xcand): (fmean, fvar) at candidate c
build_predict(c) == CASE c = 1 -> <<50, 1600>> [] c = 2 -> <<100, 0>>

\* gamma * norm.prob(gamma) / (2 * norm.cdf(gamma)) - norm.log_cdf(gamma)
\* for gamma = (fmean - s) / sd, in 1e-3
Term(fmean, sd, s) ==
    IF IsNaN(sd) \/ IsNaN(s) \/ sd = 0 THEN NaN
    ELSE LET num == fmean - s
             lc  == LogCdf(num, sd)
             cdf == Exp(lc)
             pdf == Pdf(num, sd)
         IN  IF cdf = 0
             THEN (IF num * pdf = 0 THEN NaN ELSE NegInf)
             ELSE (num * pdf * 1000) \div (sd * 2 * cdf) - lc \div 10000

RECURSIVE ReduceSum(_, _, _, _)
\* tf.reduce_sum over the samples k.. : NaN and -inf absorb
ReduceSum(fmean, sd, smp, k) ==
    IF k > Len(smp) THEN 0
    ELSE LET t    == Term(fmean, sd, smp[k])
             rest == ReduceSum(fmean, sd, smp, k + 1)
         IN  IF IsNaN(t) \/ IsNaN(rest) THEN NaN
             ELSE IF t = NegInf \/ rest = NegInf THEN NegInf
             ELSE t + rest

\* the acquisition value of candidate c
Acquisition(c) ==
    LET p   == build_predict(c)
        sum == ReduceSum(p[1], Sqrt(p[2]), samples, 1)
    IN  IF Finite(sum) THEN sum \div num_samples ELSE sum

\* build_acquisition that centres the cached samples on fmean in place
build_acquisition_centring(c) ==
    /\ pc = "idle"
    /\ Len(scored) < MaxScores
    /\ scored' = Append(scored, <<c, Acquisition(c)>>)
    /\ samples' = [j \in DOMAIN samples |->
                       IF IsNaN(samples[j]) THEN NaN
                       ELSE samples[j] - build_predict(c)[1]]
    /\ UNCHANGED <<gridsize, num_samples, Y, postX, autoflow, pc,
                   fgrid, left, right, q, stack, val, ret, err>>

\* build_acquisition(Xcand) for the one candidate c
build_acquisition(c) ==
    /\ pc = "idle"
    /\ Len(scored) < MaxScores
    /\ scored' = Append(scored, <<c, Acquisition(c)>>)
    /\ UNCHANGED <<gridsize, num_samples, samples, Y, postX, autoflow, pc,
                   fgrid, left, right, q, stack, val, ret, err>>

Score == \E c \in Candidates : build_acquisition(c)

----------------------------------------------------------------------------
(* The scorer over its lifetime.                                           *)

Next ==
    \/ SetupPredict
    \/ SetupPredictRaises
    \/ SetupMaxRaises
    \/ SetupBracket
    \/ Widen
    \/ WidenExit
    \/ BSReturn
    \/ BSRecurseUpper
    \/ BSRecurseLower
    \/ BSRecursionError
    \/ MapNext
    \/ SetupFit
    \/ SetupKillRaises
    \/ Score

Spec == Init /\ [][Next]_vars

----------------------------------------------------------------------------
(* binary_search called on its own, for every func, bracket and target.    *)

\* the functions func: probf of one block of count points
Funcs == {<<Block(gp[1], gp[2], c)>> : gp \in GridPosteriors, c \in {1, 3}}

Lefts == {-200, -100, 0}

Rights == {-100, 100, 600}

InitBS ==
    /\ gridsize = 1
    /\ num_samples = 1
    /\ samples = Zeros(1)
    /\ Y = << >>
    /\ postX = <<0, 1600>>
    /\ autoflow = FALSE
    /\ pc = "call"
    /\ fgrid \in Funcs
    /\ left = 0 /\ right = 0 /\ q = << >>
    /\ \E l \in Lefts, r \in Rights : l < r /\ stack = << <<l, r>> >>
    /\ val \in {Vals[k] : k \in 1..Len(Vals)}
    /\ ret = << >>
    /\ err = "none"
    /\ scored = << >>

NextBS ==
    \/ BSReturn
    \/ BSRecurseUpper
    \/ BSRecurseLower
    \/ BSRecursionError

SpecBS == InitBS /\ [][NextBS]_vars

----------------------------------------------------------------------------
(* Properties.                                                             *)

\* probf is NaN-free, hence monotonically decreasing in x: every grid point
\* has a positive variance
Monotone == fgrid # << >> /\ \A k \in 1..Len(fgrid) : fgrid[k].var > 0

\* the bracket f = <<l, r>> is in order and encloses the target:
\* l < r and probf(r) < val <= probf(l)
Encloses(f) ==
    /\ f[1] < f[2]
    /\ Less(probf(f[2]), val)
    /\ ~Less(probf(f[1]), val) /\ ~IsNaN(probf(f[1]))

\* val lies strictly between probf(right) and probf(left) of the first call
StrictlyBetween ==
    /\ Less(probf(stack[1][2]), val)
    /\ Less(val, probf(stack[1][1]))

\* C1: for a monotonically decreasing probf and a target strictly between
\* probf(right) and probf(left), a value binary_search returns, at whatever
\* recursion depth, is within threshold of the target:
\* |probf(mid) - val| <= threshold.
C1_ReturnWithinTolerance ==
    (pc = "call" /\ ret # << >> /\ Monotone /\ StrictlyBetween)
        => Abs(probf(ret[1]) - val) <= Threshold

\* C1 witness: such a search has returned from a recursive call
C1_Witness ==
    /\ pc = "call" /\ ret # << >> /\ Monotone /\ StrictlyBetween
    /\ Len(stack) >= 2

\* C2: binary_search stops by itself for every probf and target: no call
\* is ever made with the arguments of a call already on the stack, which
\* would recurse without end.
C2_RecursionBounded == ~(pc = "call" /\ Repeated)

\* C3: every iteration of the bracket-widening loop moves left, so the loop
\* of a monotonically decreasing probf cannot stay for ever at one left
\* with probf(left) < 0.75.
C3_WideningTerminates ==
    (pc = "widen" /\ Monotone /\ Less(probf(left), WidenLevel))
        => Widened(left, right) # left

\* C4: the cached sample array has num_samples entries in every state:
\* after construction, and after every successful setup, failed setup and
\* score.
C4_SampleLengthConstant ==
    /\ DOMAIN samples = 1..num_samples
    /\ Len(samples) = num_samples

\* C4 witness: a successful setup has replaced the zeros of construction
C4_Witness ==
    /\ pc = "idle" /\ err = "none"
    /\ \A j \in 1..num_samples : samples[j] # 0
    /\ num_samples = MaxSamples

\* C5: a step of setup that leaves it running, or that raises, leaves the
\* cached samples as they are: the cache changes only in the step that
\* completes a setup, and then as a whole.
C5_FailedSetupKeepsCache ==
    [][(pc' # "idle" \/ err' # "none") => samples' = samples]_vars

\* C5 witness: a setup has failed after an earlier one filled the cache
C5_Witness ==
    /\ pc = "idle" /\ err # "none"
    /\ samples # Zeros(num_samples)

\* C6: a score call changes neither the cached samples nor the surrogate,
\* and score calls for the same candidate with no setup between them
\* return the same value.
C6_ScoringPure ==
    /\ [](\A i, j \in 1..Len(scored) :
              scored[i][1] = scored[j][1] => scored[i][2] = scored[j][2])
    /\ [][Len(scored') > Len(scored)
              => /\ samples' = samples
                 /\ autoflow' = autoflow
                 /\ Y' = Y /\ postX' = postX]_vars

\* C6 witness: the same candidate scored twice after a successful setup
C6_Witness ==
    /\ Len(scored) = 2
    /\ scored[1][1] = scored[2][1]
    /\ samples # Zeros(num_samples)

\* C7: a non-positive predicted variance is rejected: setup does not go on
\* past the posterior evaluation with one at a grid point, and score
\* returns nothing for a candidate that has one.
C7_DegenerateVarianceRejected ==
    /\ pc \in {"widen", "search", "fit"}
          => \A k \in 1..Len(fgrid) : fgrid[k].var > 0
    /\ \A i \in 1..Len(scored) : build_predict(scored[i][1])[2] > 0

\* C8: between a failed setup and the next successful one no score call
\* returns a score.
C8_NoScoreAfterFailedSetup == ~(err # "none" /\ scored # << >>)

\* C9: for a monotonically decreasing probf, every call whose bracket is in
\* order and encloses the target finds an insertion index between 1 and 99
\* and, when it recurses, passes a bracket inside its own, strictly
\* narrower, that still encloses the target.
C9_BracketInvariant ==
    Monotone =>
        \A k \in 1..Len(stack) :
            Encloses(stack[k]) =>
                /\ SearchSorted(stack[k][1], stack[k][2]) \in 1..(NumPoints - 1)
                /\ k < Len(stack) =>
                      /\ stack[k][1] <= stack[k + 1][1]
                      /\ stack[k + 1][2] <= stack[k][2]
                      /\ stack[k + 1][2] - stack[k + 1][1]
                             < stack[k][2] - stack[k][1]
                      /\ Encloses(stack[k + 1])

\* C10: when the three searches of a setup with a monotonically decreasing
\* probf have returned, q2 < med < q1, all three lie in [left, right], and
\* beta is not zero.
C10_QuantilesOrdered ==
    (pc = "fit" /\ Monotone) =>
        /\ q[3] < q[2] /\ q[2] < q[1]
        /\ \A k \in 1..3 : left <= q[k] /\ q[k] <= right
        /\ Beta(q[1], q[3]) # 0

============================================================================
